---- MODULE Spec2Model ----
(***************************************************************************)
(* Model of services/memory_service.py: the Cognee memory service.         *)
(*                                                                         *)
(* The service is an asyncio application: handlers run on one event loop   *)
(* and interleave only at their await points (cognee.add, cognee.cognify,  *)
(* cognee.search, cognee.prune.prune_system).  Every action below is the   *)
(* code that runs between two await points of one handler.                 *)
(*                                                                         *)
(* Texts are sequences of symbols.  The literal "[WORLD:" of the tag is    *)
(* one symbol; "]" and " " are symbols of their own.                       *)
(***************************************************************************)
EXTENDS Integers, Sequences, FiniteSets, TLC

VARIABLES
    phase,                \* "boot" before startup_event has run, then "serving"
    cognee_initialized,   \* _cognee_initialized
    last_cognify_time,    \* _last_cognify_time
    world_memories,       \* _world_memories: world_id -> list of facts
    engine,               \* texts accepted by cognee.add, in order of acceptance
    clock,                \* the last value time.time() returned
    req,                  \* the remember requests in flight, per slot
    lastResp,             \* the last HTTP response sent; for a recall also the limit asked
                          \* for and the engine's whole answer
    served,               \* number of requests received
    calls,                \* engine calls made so far, per engine operation
    resetOk,              \* outcome of the engine reset made by startup
    decisions,            \* history: the debounce decisions taken, in order, each with the
                          \* world of its request
    overlapped,           \* history: some request started while another was in flight
    rebuildFailed,        \* history: the last failed cognify not yet followed by a decision
    addLog,               \* history: the cognee.add calls made, in order, each with the number
                          \* of the request that made it
    tg                    \* the tag round trip under test (TagSpec only)

vars == << phase, cognee_initialized, last_cognify_time, world_memories, engine,
           clock, req, lastResp, served, calls, resetOk, decisions, overlapped,
           rebuildFailed, addLog, tg >>

svcVars == << phase, cognee_initialized, last_cognify_time, world_memories, engine,
              clock, req, lastResp, served, calls, resetOk, decisions, overlapped,
              rebuildFailed, addLog >>

---------------------------------------------------------------------------
(* Bounds *)

MaxInflight == 2     \* remember requests in flight at once
MaxServed == 3       \* requests received in one run
MaxFacts == 2        \* facts in one remember request
MaxTime == 62        \* last instant at which the clock is read
MaxAnswer == 2       \* items in one engine answer
MaxLen == 5          \* symbols in a fact of the tag round trip

(* Program constant: the debounce window of remember *)
Window == 30

Slots == 1..MaxInflight
\* the instants at which the clock is read: around one window after 0 and after 31
Instants == { t \in {10, 31, 41, 61, 62} : t <= MaxTime }

Worlds == { <<"a">>, <<"b">> }
Queries == { <<"x">> }
Limits == {1, 20}

RECURSIVE SeqsUpTo(_, _)
SeqsUpTo(S, n) ==
    IF n = 0 THEN { <<>> }
    ELSE LET shorter == SeqsUpTo(S, n - 1)
         IN  shorter \cup { Append(s, x) : s \in shorter, x \in S }

\* the fact lists of the requests: the first n facts of a fixed list
FactPool == [ i \in 1..MaxFacts |->
                IF i % 2 = 1 THEN <<"x">> ELSE <<"x", "[WORLD:", "a", "]", " ", "x">> ]
FactLists == { SubSeq(FactPool, 1, n) : n \in 1..MaxFacts }

\* the remember requests sent: any fact list to world a, one fact to world b
RememberInputs ==
    { in \in Worlds \X FactLists : in[1] = <<"a">> \/ Len(in[2]) = 1 }

Range(s) == { s[i] : i \in 1..Len(s) }

Min(a, b) == IF a < b THEN a ELSE b

---------------------------------------------------------------------------
(* Tenant tag: f"[WORLD:{world_id}] {fact}" and text.replace(marker, "") *)

Marker(w) == <<"[WORLD:">> \o w \o <<"]", " ">>

\* a tag applied to an already tagged fact
TagFact_Twice(fact, w) == Marker(w) \o Marker(w) \o fact

TagFact(fact, w) == Marker(w) \o fact

StartsWith(s, p) == Len(s) >= Len(p) /\ SubSeq(s, 1, Len(p)) = p

\* str.replace(old, ""): every non-overlapping occurrence, scanning left to right
RECURSIVE StrReplace(_, _)
StrReplace(s, old) ==
    IF Len(s) < Len(old) THEN s
    ELSE IF StartsWith(s, old)
         THEN StrReplace(SubSeq(s, Len(old) + 1, Len(s)), old)
         ELSE <<Head(s)>> \o StrReplace(Tail(s), old)

StripTag(text, w) == StrReplace(text, Marker(w))

TaggedFacts(w, fs) == [ i \in 1..Len(fs) |-> TagFact(fs[i], w) ]

---------------------------------------------------------------------------
(* Responses *)

NoResp == [ op |-> "none", code |-> 0, world |-> <<>>, n |-> 0,
            raw |-> <<>>, results |-> <<>>, status |-> "",
            answer |-> <<>>, limit |-> 0 ]

Resp(op, code, w, n, raw, results, st) ==
    [ op |-> op, code |-> code, world |-> w, n |-> n,
      raw |-> raw, results |-> results, status |-> st,
      answer |-> <<>>, limit |-> 0 ]

\* pre is history: the watermark and the cache as the request found them
Idle == [ pc |-> "idle", id |-> 0, world |-> <<>>, facts |-> <<>>, k |-> 0, now |-> 0, wm |-> 0,
          pre |-> [ wm |-> 0, mem |-> << >> ] ]

NoFail == [ pending |-> FALSE, now |-> 0, wm |-> 0 ]

InFlight == { r \in Slots : req[r].pc # "idle" }

\* a gate that lets every request through
NotReady_Open == FALSE

\* the readiness gate of remember, recall and clear_world
NotReady == ~cognee_initialized

\* a debounce test that also fires at exactly one window
WindowElapsed_AtLeast(now, last) == now - last >= Window

\* the debounce test of remember
WindowElapsed(now, last) == now - last > Window

\* a startup that sets the flag whatever the engine reset did
StartupFlag_Always(ok) == TRUE

\* the flag startup_event leaves behind
StartupFlag(ok) == ok

---------------------------------------------------------------------------
Init ==
    /\ phase = "boot"
    /\ cognee_initialized = FALSE
    /\ last_cognify_time = 0
    /\ world_memories = [ w \in {} |-> << >> ]
    /\ engine = << >>
    /\ clock = 0
    /\ req = [ r \in Slots |-> Idle ]
    /\ lastResp = NoResp
    /\ served = 0
    /\ calls = [ add |-> 0, cognify |-> 0, search |-> 0, prune |-> 0, failed |-> 0 ]
    /\ resetOk = FALSE
    /\ decisions = << >>
    /\ overlapped = FALSE
    /\ rebuildFailed = NoFail
    /\ addLog = << >>
    /\ tg = [ pc |-> "off", w |-> <<>>, f |-> <<>>, tagged |-> <<>>, out |-> <<>> ]

\* startup_event: one engine reset, then the flag
Startup(ok) ==
    /\ phase = "boot"
    /\ phase' = "serving"
    /\ cognee_initialized' = StartupFlag(ok)
    /\ resetOk' = ok
    /\ calls' = [ calls EXCEPT !.prune = @ + 1, !.failed = @ + (IF ok THEN 0 ELSE 1) ]
    /\ UNCHANGED << last_cognify_time, world_memories, engine, clock, req, lastResp,
                    served, decisions, overlapped, rebuildFailed, addLog, tg >>

Receive ==
    /\ phase = "serving"
    /\ served < MaxServed
    /\ served' = served + 1

Root ==
    /\ Receive
    /\ lastResp' = Resp("root", 200, <<>>, 0, <<>>, <<>>,
                        IF cognee_initialized THEN "running" ELSE "degraded")
    /\ overlapped' = (overlapped \/ InFlight # {})
    /\ UNCHANGED << phase, cognee_initialized, last_cognify_time, world_memories,
                    engine, clock, req, calls, resetOk, decisions, rebuildFailed, addLog, tg >>

health_check ==
    /\ Receive
    /\ lastResp' = Resp("health", 200, <<>>, 0, <<>>, <<>>,
                        IF cognee_initialized THEN "healthy" ELSE "unhealthy")
    /\ overlapped' = (overlapped \/ InFlight # {})
    /\ UNCHANGED << phase, cognee_initialized, last_cognify_time, world_memories,
                    engine, clock, req, calls, resetOk, decisions, rebuildFailed, addLog, tg >>

---------------------------------------------------------------------------
(* remember *)

\* the tagged texts cached in place of the facts
RecordWrite_Tagged(m, w, fs) ==
    [ x \in DOMAIN m \cup {w} |->
        IF x = w THEN (IF w \in DOMAIN m THEN m[w] ELSE << >>) \o TaggedFacts(w, fs)
        ELSE m[x] ]

\* the entry overwritten by the facts of the last request
RecordWrite_Replace(m, w, fs) ==
    [ x \in DOMAIN m \cup {w} |-> IF x = w THEN fs ELSE m[x] ]

\* _world_memories[world_id].extend(facts), creating the entry if absent
RecordWrite(m, w, fs) ==
    [ x \in DOMAIN m \cup {w} |->
        IF x = w THEN (IF w \in DOMAIN m THEN m[w] ELSE << >>) \o fs ELSE m[x] ]

\* the request is accepted up to its first await: the first cognee.add
remember(r, w, fs) ==
    /\ Receive
    /\ req[r].pc = "idle"
    /\ \A q \in Slots : q < r => req[q].pc # "idle"
    /\ overlapped' = (overlapped \/ InFlight # {})
    /\ IF NotReady
       THEN /\ lastResp' = Resp("remember", 503, w, 0, <<>>, <<>>, "")
            /\ UNCHANGED << req, calls, addLog >>
       ELSE /\ req' = [ req EXCEPT ![r] = [ pc |-> "adding", id |-> served + 1, world |-> w,
                                            facts |-> fs, k |-> 0, now |-> 0, wm |-> 0,
                                            pre |-> [ wm |-> last_cognify_time,
                                                      mem |-> world_memories ] ] ]
            /\ calls' = [ calls EXCEPT !.add = @ + 1 ]
            /\ addLog' = Append(addLog, [ id |-> served + 1,
                                          text |-> TaggedFacts(w, fs)[1] ])
            /\ UNCHANGED lastResp
    /\ UNCHANGED << phase, cognee_initialized, last_cognify_time, world_memories,
                    engine, clock, resetOk, decisions, rebuildFailed, tg >>

\* lines 200-212: cache the facts and answer
Stored(r) ==
    /\ world_memories' = RecordWrite(world_memories, req[r].world, req[r].facts)
    /\ lastResp' = Resp("remember", 200, req[r].world, Len(req[r].facts), <<>>, <<>>, "")

\* an exception swallowed and answered as a success
Failed500_Ok(r) ==
    /\ lastResp' = Resp("remember", 200, req[r].world, 0, <<>>, <<>>, "")
    /\ req' = [ req EXCEPT ![r] = Idle ]

\* lines 214-220: any exception of the try block becomes a 500
Failed500(r) ==
    /\ lastResp' = Resp("remember", 500, req[r].world, 0, <<>>, <<>>, "")
    /\ req' = [ req EXCEPT ![r] = Idle ]

\* the debounce of lines 191-198, decided with the clock reading now; when
\* granted, cognee.cognify is called (the next await)
Debounce(r, now) ==
    LET granted == WindowElapsed(now, last_cognify_time)
    IN  /\ clock' = now
        /\ decisions' = Append(decisions,
                               [ world |-> req[r].world,
                                 now |-> now, wm |-> last_cognify_time,
                                 granted |-> granted,
                                 afterFail |-> rebuildFailed.pending ])
        /\ rebuildFailed' = NoFail
        /\ IF granted
           THEN /\ req' = [ req EXCEPT ![r].pc = "cognify", ![r].k = @ + 1,
                                       ![r].now = now, ![r].wm = last_cognify_time ]
                /\ calls' = [ calls EXCEPT !.cognify = @ + 1 ]
                /\ UNCHANGED << lastResp, world_memories >>
           ELSE /\ Stored(r)
                /\ req' = [ req EXCEPT ![r] = Idle ]
                /\ UNCHANGED calls

\* cognee.add of fact k+1 returns; after the last one time.time() is read (never
\* earlier than the previous reading) and the debounce is decided
AddReturn(r, ok) ==
    /\ req[r].pc = "adding"
    /\ IF ~ok
       THEN /\ Failed500(r)
            /\ calls' = [ calls EXCEPT !.failed = @ + 1 ]
            /\ UNCHANGED << engine, addLog, world_memories, decisions, rebuildFailed,
                            clock >>
       ELSE /\ engine' = Append(engine, TaggedFacts(req[r].world, req[r].facts)[req[r].k + 1])
            /\ IF req[r].k + 1 < Len(req[r].facts)
               THEN /\ req' = [ req EXCEPT ![r].k = @ + 1 ]
                    /\ calls' = [ calls EXCEPT !.add = @ + 1 ]
                    /\ addLog' = Append(addLog,
                           [ id |-> req[r].id,
                             text |-> TaggedFacts(req[r].world, req[r].facts)[req[r].k + 2] ])
                    /\ UNCHANGED << lastResp, world_memories, decisions, rebuildFailed,
                                    clock >>
               ELSE /\ UNCHANGED addLog
                    /\ \E now \in { t \in Instants : t >= clock } : Debounce(r, now)
    /\ UNCHANGED << phase, cognee_initialized, last_cognify_time, served,
                    resetOk, overlapped, tg >>

\* the watermark left where it was after a rebuild
WatermarkAfter_Keep(r) == last_cognify_time

\* the watermark set to the latest clock reading of any request
WatermarkAfter_Clock(r) == clock

\* line 196, _last_cognify_time = now: the clock reading of this request's own
\* decision, taken at line 192 before the await
WatermarkAfter(r) == req[r].now

\* cognee.cognify returns: the watermark is written only after a successful rebuild
CognifyReturn(r, ok) ==
    /\ req[r].pc = "cognify"
    /\ IF ok
       THEN /\ last_cognify_time' = WatermarkAfter(r)
            /\ Stored(r)
            /\ req' = [ req EXCEPT ![r] = Idle ]
            /\ UNCHANGED << calls, rebuildFailed >>
       ELSE /\ Failed500(r)
            /\ calls' = [ calls EXCEPT !.failed = @ + 1 ]
            /\ rebuildFailed' = [ pending |-> TRUE, now |-> req[r].now, wm |-> req[r].wm ]
            /\ UNCHANGED << last_cognify_time, world_memories >>
    /\ UNCHANGED << phase, cognee_initialized, engine, clock, served, resetOk,
                    decisions, overlapped, addLog, tg >>

---------------------------------------------------------------------------
(* recall *)

\* what cognee.search may answer: any short list of texts the engine holds
EngineAnswers ==
    { a \in SeqsUpTo(Range(engine), MaxAnswer) : Cardinality(Range(a)) = Len(a) }

\* lines 257-270: at most limit items, each with the marker of the world removed
CleanResults(raw, w, limit) ==
    [ i \in 1..Min(limit, Len(raw)) |-> StripTag(raw[i], w) ]

\* the query goes to cognee.search tagged, TagFact(q, w); what comes back (raw, or
\* an exception when ~ok) is the engine's choice
recall(w, q, limit, ok, raw) ==
    /\ Receive
    /\ overlapped' = (overlapped \/ InFlight # {})
    /\ IF NotReady
       THEN /\ lastResp' = Resp("recall", 503, w, 0, <<>>, <<>>, "")
            /\ UNCHANGED calls
       ELSE IF ~ok
       THEN /\ lastResp' = Resp("recall", 500, w, 0, <<>>, <<>>, "")
            /\ calls' = [ calls EXCEPT !.search = @ + 1, !.failed = @ + 1 ]
       ELSE /\ lastResp' = [ Resp("recall", 200, w, Len(CleanResults(raw, w, limit)),
                                  SubSeq(raw, 1, Min(limit, Len(raw))),
                                  CleanResults(raw, w, limit), "")
                               EXCEPT !.answer = raw, !.limit = limit ]
            /\ calls' = [ calls EXCEPT !.search = @ + 1 ]
    /\ UNCHANGED << phase, cognee_initialized, last_cognify_time, world_memories,
                    engine, clock, req, resetOk, decisions, rebuildFailed, addLog, tg >>

---------------------------------------------------------------------------
(* clear_world *)

\* a clear that empties the whole cache
ClearedCache_All(m, w) == [ x \in {} |-> << >> ]

\* lines 314-316: del _world_memories[world_id] when the entry is there
ClearedCache(m, w) == [ x \in DOMAIN m \ {w} |-> m[x] ]

\* the count of cleared facts is only logged (line 317): ClearWorldResponse has no
\* field for it, so n stays 0
clear_world(w) ==
    /\ Receive
    /\ overlapped' = (overlapped \/ InFlight # {})
    /\ IF NotReady
       THEN /\ lastResp' = Resp("clear_world", 503, w, 0, <<>>, <<>>, "")
            /\ UNCHANGED world_memories
       ELSE /\ world_memories' = ClearedCache(world_memories, w)
            /\ lastResp' = Resp("clear_world", 200, w, 0, <<>>, <<>>, "")
    /\ UNCHANGED << phase, cognee_initialized, last_cognify_time, engine, clock, req,
                    calls, resetOk, decisions, rebuildFailed, addLog, tg >>

---------------------------------------------------------------------------
Next ==
    \/ \E ok \in BOOLEAN : Startup(ok)
    \/ Root
    \/ health_check
    \/ \E r \in Slots, in \in RememberInputs : remember(r, in[1], in[2])
    \/ \E r \in Slots, ok \in BOOLEAN : AddReturn(r, ok)
    \/ \E r \in Slots, ok \in BOOLEAN : CognifyReturn(r, ok)
    \/ \E w \in Worlds, q \in Queries, limit \in Limits, ok \in BOOLEAN :
          \E raw \in (IF ok THEN EngineAnswers ELSE { <<>> }) : recall(w, q, limit, ok, raw)
    \/ \E w \in Worlds : clear_world(w)

Spec == Init /\ [][Next]_vars

---------------------------------------------------------------------------
(* The tag round trip on its own: tag a fact as remember does, then strip   *)
(* the tag as recall does.                                                  *)

TagSymbols == { "[WORLD:", "a", "]", " ", "x" }
TagWorlds == SeqsUpTo({ "a", "x" }, 2) \ { << >> }
TagTexts == SeqsUpTo(TagSymbols, MaxLen)

TagInit ==
    /\ phase = "boot"
    /\ cognee_initialized = FALSE
    /\ last_cognify_time = 0
    /\ world_memories = [ w \in {} |-> << >> ]
    /\ engine = << >>
    /\ clock = 0
    /\ req = [ r \in Slots |-> Idle ]
    /\ lastResp = NoResp
    /\ served = 0
    /\ calls = [ add |-> 0, cognify |-> 0, search |-> 0, prune |-> 0, failed |-> 0 ]
    /\ resetOk = FALSE
    /\ decisions = << >>
    /\ overlapped = FALSE
    /\ rebuildFailed = NoFail
    /\ addLog = << >>
    /\ \E w \in TagWorlds, f \in TagTexts :
          tg = [ pc |-> "in", w |-> w, f |-> f, tagged |-> << >>, out |-> << >> ]

\* line 182
TagStep ==
    /\ tg.pc = "in"
    /\ tg' = [ tg EXCEPT !.pc = "tagged", !.tagged = TagFact(tg.f, tg.w) ]
    /\ UNCHANGED svcVars

\* line 269
StripStep ==
    /\ tg.pc = "tagged"
    /\ tg' = [ tg EXCEPT !.pc = "done", !.out = StripTag(tg.tagged, tg.w) ]
    /\ UNCHANGED svcVars

TagNext == TagStep \/ StripStep

TagSpec == TagInit /\ [][TagNext]_vars

---------------------------------------------------------------------------
(* Properties of the service *)

Granted == { r \in Slots : req[r].pc = "cognify" }

Abs(n) == IF n < 0 THEN 0 - n ELSE n

\* C1: remember requests in flight together whose debounce decisions fall
\* inside one window never both trigger a rebuild
C1_OneRebuildPerWindow ==
    \A r1, r2 \in Granted :
        r1 # r2 => Abs(req[r1].now - req[r2].now) >= Window

\* C2: at most one engine rebuild (cognify) is executing at any time
C2_RebuildExclusive == Cardinality(Granted) <= 1

GatedOps == { "remember", "recall", "clear_world" }
OpenOps == { "health", "root" }

\* C3: while the service is not ready, every remember, recall and clear_world
\* is answered 503 at once, without an engine call and without touching the
\* cache, the watermark or the engine; health and root are always answered 200
\* and health says unhealthy exactly when the engine is not initialized
C3_NotReadyGate ==
    [][ (served' = served + 1) =>
          /\ ~cognee_initialized =>
                /\ calls' = calls
                /\ engine' = engine
                /\ world_memories' = world_memories
                /\ last_cognify_time' = last_cognify_time
                /\ req' = req
                /\ lastResp'.op \in GatedOps \cup OpenOps
                /\ lastResp'.op \in GatedOps => lastResp'.code = 503
          /\ (req' = req /\ lastResp'.op \in OpenOps) =>
                /\ lastResp'.code = 200
                /\ calls' = calls
          /\ (req' = req /\ lastResp'.op = "health") =>
                (lastResp'.status = "unhealthy" <=> ~cognee_initialized)
      ]_vars

C3_Witness ==
    /\ phase = "serving"
    /\ ~cognee_initialized
    /\ served = 2
    /\ lastResp.op = "remember"
    /\ lastResp.code = 503

\* C4: a recall for one world never returns an engine item that carries the
\* marker of another world
C4_Isolation ==
    (lastResp.op = "recall" /\ lastResp.code = 200) =>
        \A i \in 1..Len(lastResp.raw) :
            \A w \in Worlds \ { lastResp.world } :
                ~StartsWith(lastResp.raw[i], Marker(w))

\* C5: stripping the tag from a tagged fact gives the fact back
C5_RoundTrip == tg.pc = "done" => tg.out = tg.f

\* C6, as claimed: a debounce decision is granted exactly when at least one
\* window has passed since the watermark
C6_GrantedFromThirty ==
    \A i \in 1..Len(decisions) :
        decisions[i].granted <=> (decisions[i].now - decisions[i].wm >= Window)

\* C6, amended: a debounce decision is granted exactly when more than one
\* window has passed since the watermark; at exactly one window it is denied
C6_GrantedAfterThirty ==
    \A i \in 1..Len(decisions) :
        decisions[i].granted <=> (decisions[i].now - decisions[i].wm > Window)

C6_Witness ==
    \E i, j \in 1..Len(decisions) :
        /\ decisions[i].wm > 0
        /\ decisions[i].now - decisions[i].wm = Window
        /\ ~decisions[i].granted
        /\ decisions[j].now - decisions[j].wm = Window + 1
        /\ decisions[j].granted

\* C7: three remember calls one after the other, with no engine failure,
\* decided at t0, t0+10 and t0+31: the first rebuilds and leaves the watermark
\* at t0, the second does not rebuild, the third rebuilds
C7_ThreeCalls ==
    (~overlapped /\ calls.failed = 0 /\ Len(decisions) >= 1) =>
        /\ decisions[1].granted
        /\ (Len(decisions) = 1 /\ InFlight = {}) => last_cognify_time = decisions[1].now
        /\ (Len(decisions) >= 2 /\ decisions[2].now = decisions[1].now + 10) =>
              /\ decisions[2].wm = decisions[1].now
              /\ ~decisions[2].granted
              /\ (Len(decisions) >= 3 /\ decisions[3].now = decisions[1].now + 31) =>
                    decisions[3].granted

\* C8: a rebuild that fails leaves the watermark at its value from before the
\* decision that granted it, and the next debounce decision is granted
C8_RetryAfterFailedRebuild ==
    [][ /\ \A r \in Slots :
              (req[r].pc = "cognify" /\ calls'.failed = calls.failed + 1) =>
                  last_cognify_time' = req[r].wm
        /\ \A i \in 1..Len(decisions') :
              decisions'[i].afterFail => decisions'[i].granted
      ]_vars

\* C9: a remember whose adds all succeeded ends, also when its rebuild fails,
\* with a 200 that counts its facts and with its facts in the cache
C9_StoredDespiteRebuildFailure ==
    [][ \A r \in Slots :
          (req[r].pc = "cognify" /\ req'[r].pc = "idle") =>
              /\ lastResp'.op = "remember"
              /\ lastResp'.code = 200
              /\ lastResp'.n = Len(req[r].facts)
              /\ world_memories' = RecordWrite(world_memories, req[r].world, req[r].facts)
      ]_vars

\* C10: startup decides readiness (ready exactly when the engine reset
\* succeeded) and no later step changes it
C10_ReadinessSetOnce ==
    [][ /\ phase' = "serving" => cognee_initialized' = resetOk'
        /\ phase = "serving" =>
              /\ phase' = "serving"
              /\ cognee_initialized' = cognee_initialized
              /\ resetOk' = resetOk
      ]_vars

C10_Witness ==
    /\ phase = "serving"
    /\ cognee_initialized
    /\ served = 3
    /\ calls.failed = 2
    /\ lastResp.code = 500

\* the world whose marker a tagged text carries
WorldOf(text) == CHOOSE w \in Worlds : StartsWith(text, Marker(w))

\* the number of cognee.add calls among the first i that request number id made
AddsOf(id, i) == Cardinality({ j \in 1..i : addLog[j].id = id })

\* C11: the facts of one request are handed to cognee.add in list order, and of
\* two requests to one world every add of the one received first is made
\* before every add of the other
C11_WritesInOrder ==
    /\ \A i \in 1..Len(addLog) :
          addLog[i].text =
              Marker(WorldOf(addLog[i].text)) \o FactPool[AddsOf(addLog[i].id, i)]
    /\ \A i, j \in 1..Len(addLog) :
          (i < j /\ WorldOf(addLog[i].text) = WorldOf(addLog[j].text)) =>
              addLog[i].id <= addLog[j].id

\* a step that receives a request and answers it at once
Answered(op) == served' = served + 1 /\ req' = req /\ lastResp'.op = op

\* C12: clear_world of a world without a cache entry succeeds with a count of
\* 0 and changes nothing, so a second clear changes nothing more; clear_world
\* of a world with an entry removes it and reports the number of facts it held
C12_ClearReportsCount ==
    [][ (Answered("clear_world") /\ cognee_initialized) =>
          /\ lastResp'.code = 200
          /\ lastResp'.world \notin DOMAIN world_memories'
          /\ lastResp'.world \notin DOMAIN world_memories =>
                /\ lastResp'.n = 0
                /\ world_memories' = world_memories
          /\ lastResp'.world \in DOMAIN world_memories =>
                lastResp'.n = Len(world_memories[lastResp'.world])
      ]_vars

\* the step in which the remember request of slot r ends without an exception
Succeeds(r) ==
    req[r].pc # "idle" /\ req'[r].pc = "idle" /\ calls'.failed = calls.failed

\* the add calls of request number id, in the order they were made
AddCallsOf(log, id) == SelectSeq(log, LAMBDA e : e.id = id)

\* C13: a remember that succeeds with n facts has made exactly n add calls,
\* the i-th with the marker of its own world followed by its i-th fact, and
\* answers facts_stored = n
C13_StoredCount ==
    [][ \A r \in Slots :
          Succeeds(r) =>
              LET mine == AddCallsOf(addLog', req[r].id)
              IN  /\ Len(mine) = Len(req[r].facts)
                  /\ \A i \in 1..Len(mine) :
                        mine[i].text =
                            <<"[WORLD:">> \o req[r].world \o <<"]", " ">> \o req[r].facts[i]
                  /\ lastResp'.op = "remember"
                  /\ lastResp'.code = 200
                  /\ lastResp'.world = req[r].world
                  /\ lastResp'.n = Len(req[r].facts)
      ]_vars

C13_Witness ==
    /\ lastResp.op = "remember"
    /\ lastResp.code = 200
    /\ lastResp.n = 2
    /\ Len(addLog) = 2
    /\ InFlight = {}

\* the text without its leading marker of world w, unchanged when it does not
\* start with that marker
LeadingTagRemoved(text, w) ==
    IF StartsWith(text, Marker(w))
    THEN SubSeq(text, Len(Marker(w)) + 1, Len(text))
    ELSE text

\* C14: a successful recall with limit L over an engine answer of m items
\* returns the first min(L, m) items of the answer, in the engine's order, each
\* without its world tag, and count is the length of the results list
C14_RecallTruncates ==
    (lastResp.op = "recall" /\ lastResp.code = 200) =>
        LET m == Len(lastResp.answer)
            k == IF lastResp.limit < m THEN lastResp.limit ELSE m
        IN  /\ lastResp.limit \in 1..20
            /\ Len(lastResp.results) = k
            /\ lastResp.n = Len(lastResp.results)
            /\ \A i \in 1..k :
                  lastResp.results[i] =
                      LeadingTagRemoved(lastResp.answer[i], lastResp.world)

\* C19: what recall removes from a result is only a leading marker of the
\* requested world: a text not starting with it comes back unchanged, a text
\* starting with it loses that one occurrence and nothing else
C19_StripsLeadingOnly ==
    (lastResp.op = "recall" /\ lastResp.code = 200) =>
        \A i \in 1..Len(lastResp.results) :
            LET text == lastResp.raw[i]
                M == Marker(lastResp.world)
            IN  /\ ~StartsWith(text, M) => lastResp.results[i] = text
                /\ StartsWith(text, M) =>
                      M \o lastResp.results[i] = text

\* C15, as claimed: among remember requests that do not overlap, a granted
\* decision makes every later decision taken less than one window after it, for
\* whatever world, a denied one; so two granted decisions are a window apart
C15_SharedWindow ==
    ~overlapped =>
        \A i, j \in 1..Len(decisions) :
            (i < j /\ decisions[i].granted) =>
                /\ decisions[j].now - decisions[i].now < Window => ~decisions[j].granted
                /\ decisions[j].granted => decisions[j].now - decisions[i].now >= Window

\* C15, amended: the same, for a granted decision whose rebuild succeeded; a
\* failed rebuild leaves the watermark alone and the next write retries
C15_SharedWindowAfterSuccess ==
    ~overlapped =>
        \A i, j \in 1..Len(decisions) :
            (i < j /\ decisions[i].granted /\ ~decisions[i + 1].afterFail) =>
                /\ decisions[j].now - decisions[i].now < Window => ~decisions[j].granted
                /\ decisions[j].granted => decisions[j].now - decisions[i].now >= Window

C15_Witness ==
    /\ ~overlapped
    /\ Len(decisions) = 3
    /\ decisions[1].world = <<"a">> /\ decisions[1].granted
    /\ ~decisions[2].afterFail
    /\ decisions[2].world = <<"b">> /\ ~decisions[2].granted
    /\ decisions[2].now - decisions[1].now \in 1..(Window - 1)
    /\ decisions[3].world = <<"b">> /\ decisions[3].granted

\* C16: the watermark changes only at the return of a rebuild that a granted
\* decision started, and then to the clock reading of that decision; a denied
\* decision, a recall, a clear_world, health, root and a request rejected with
\* 503 leave it unchanged
C16_WatermarkFrame ==
    [][ /\ last_cognify_time' # last_cognify_time =>
              \E r \in Slots :
                  /\ req[r].pc = "cognify"
                  /\ req'[r].pc = "idle"
                  /\ WindowElapsed(req[r].now, req[r].wm)
                  /\ last_cognify_time' = req[r].now
                  /\ \E i \in 1..Len(decisions) :
                        /\ decisions[i].granted
                        /\ decisions[i].world = req[r].world
                        /\ decisions[i].now = last_cognify_time'
        /\ (Len(decisions') > Len(decisions) /\ ~decisions'[Len(decisions')].granted) =>
              last_cognify_time' = last_cognify_time
        /\ (\E op \in { "recall", "clear_world", "health", "root" } : Answered(op)) =>
              last_cognify_time' = last_cognify_time
        /\ (served' = served + 1 /\ lastResp'.code = 503) =>
              last_cognify_time' = last_cognify_time
      ]_vars

C16_Witness ==
    /\ last_cognify_time = 31
    /\ Len(decisions) = 2
    /\ decisions[1].granted /\ decisions[1].now = 31
    /\ ~decisions[2].granted /\ decisions[2].now = 41
    /\ served = 3
    /\ lastResp.op = "recall"

\* C17: a clear_world makes no engine call and leaves the engine's facts, the
\* watermark, the readiness flag and every other world's cache entry as they
\* were; the only thing it changes is the cache entry of its own world
C17_ClearFrame ==
    [][ Answered("clear_world") =>
          /\ calls' = calls
          /\ addLog' = addLog
          /\ engine' = engine
          /\ last_cognify_time' = last_cognify_time
          /\ cognee_initialized' = cognee_initialized
          /\ phase' = phase
          /\ \A x \in Worlds \ { lastResp'.world } :
                /\ x \in DOMAIN world_memories' <=> x \in DOMAIN world_memories
                /\ x \in DOMAIN world_memories => world_memories'[x] = world_memories[x]
          /\ lastResp'.code = 200 => lastResp'.world \notin DOMAIN world_memories'
      ]_vars

C17_Witness ==
    /\ lastResp.op = "clear_world"
    /\ lastResp.code = 200
    /\ lastResp.world = <<"a">>
    /\ DOMAIN world_memories = { <<"b">> }
    /\ \E i \in 1..Len(engine) : StartsWith(engine[i], Marker(<<"a">>))
    /\ InFlight = {}

Entry(m, w) == IF w \in DOMAIN m THEN m[w] ELSE << >>

OthersKept(w) ==
    \A x \in Worlds \ {w} :
        /\ x \in DOMAIN world_memories' <=> x \in DOMAIN world_memories
        /\ Entry(world_memories', x) = Entry(world_memories, x)

\* C18: the cache starts empty; a remember that completes successfully appends
\* its untagged facts to the entry of its world, creating it if absent, and
\* changes no other entry; a clear_world removes the entry of its world and no
\* other; no other step changes the cache. So the entry of a world exists
\* exactly when a remember for it succeeded since its last clear, and holds
\* the facts of those requests in completion order
C18_CacheMirror ==
    /\ DOMAIN world_memories = {}
    /\ [][ /\ \A r \in Slots :
                 (Succeeds(r) /\ lastResp'.code = 200) =>
                     /\ req[r].world \in DOMAIN world_memories'
                     /\ world_memories'[req[r].world] =
                            Entry(world_memories, req[r].world) \o req[r].facts
                     /\ OthersKept(req[r].world)
           /\ (Answered("clear_world") /\ lastResp'.code = 200) =>
                 /\ lastResp'.world \notin DOMAIN world_memories'
                 /\ OthersKept(lastResp'.world)
           /\ ( /\ ~ \E r \in Slots : Succeeds(r) /\ lastResp'.code = 200
                /\ ~ (Answered("clear_world") /\ lastResp'.code = 200) ) =>
                 world_memories' = world_memories
         ]_vars

C18_Witness ==
    /\ DOMAIN world_memories = { <<"a">> }
    /\ world_memories[<<"a">>] = <<FactPool[1], FactPool[2], FactPool[1]>>
    /\ lastResp.op = "remember"
    /\ lastResp.code = 200
    /\ lastResp.n = 1
    /\ served = 3

\* C20: the watermark never decreases, whatever the interleaving of the
\* remember requests
C20_WatermarkMonotone ==
    [][ last_cognify_time' >= last_cognify_time ]_vars

\* the cognee.add of fact k+1 of the request in slot r raises
AddFails(r) ==
    req[r].pc = "adding" /\ req'[r].pc = "idle" /\ calls'.failed = calls.failed + 1

\* what the failing request does at its last step: a 500, no add after the one
\* that failed, no debounce decision and no rebuild, the facts before the
\* failed one in the engine
FailsClean(r) ==
    /\ lastResp'.op = "remember"
    /\ lastResp'.code = 500
    /\ lastResp'.world = req[r].world
    /\ calls'.add = calls.add
    /\ calls'.cognify = calls.cognify
    /\ decisions' = decisions
    /\ addLog' = addLog
    /\ Len(AddCallsOf(addLog', req[r].id)) = req[r].k + 1
    /\ engine' = engine
    /\ \A i \in 1..req[r].k :
          \E j \in 1..Len(engine') :
              engine'[j] = <<"[WORLD:">> \o req[r].world \o <<"]", " ">> \o req[r].facts[i]

\* C21, as claimed: when the add of the k-th fact fails the request ends with a
\* 500 without retry, further add or rebuild, the first k-1 tagged facts are in
\* the engine, and the cache and the watermark are as the request found them
C21_AddFailure ==
    [][ \A r \in Slots :
          AddFails(r) =>
              /\ FailsClean(r)
              /\ world_memories' = req[r].pre.mem
              /\ last_cognify_time' = req[r].pre.wm
      ]_vars

\* C21, amended: the same, except that the cache and the watermark are untouched
\* by the request itself, at its failing step and at every step before it; they
\* are as the request found them when no other request ran during it
C21_AddFailureOwnEffect ==
    [][ \A r \in Slots :
          /\ AddFails(r) =>
                /\ FailsClean(r)
                /\ world_memories' = world_memories
                /\ last_cognify_time' = last_cognify_time
                /\ ~overlapped =>
                      /\ world_memories' = req[r].pre.mem
                      /\ last_cognify_time' = req[r].pre.wm
          /\ (req'[r] # req[r] /\ req'[r].pc = "adding") =>
                /\ world_memories' = world_memories
                /\ last_cognify_time' = last_cognify_time
      ]_vars

C21_Witness ==
    /\ lastResp.op = "remember"
    /\ lastResp.code = 500
    /\ calls.failed = 1
    /\ calls.add = 3
    /\ calls.cognify = 1
    /\ Len(engine) = 2
    /\ engine[2] = TagFact(FactPool[1], <<"a">>)
    /\ DOMAIN world_memories = { <<"a">> }
    /\ world_memories[<<"a">>] = <<FactPool[1]>>
    /\ last_cognify_time = 31
    /\ InFlight = {}
    /\ ~overlapped

\* C22: every fact cached for a world has its tagged form, [WORLD:w] followed
\* by the fact, among the texts the engine has accepted
C22_MirrorInEngine ==
    \A w \in DOMAIN world_memories :
        \A i \in 1..Len(world_memories[w]) :
            \E j \in 1..Len(engine) :
                engine[j] = <<"[WORLD:">> \o w \o <<"]", " ">> \o world_memories[w][i]

\* a state where the converse fails: the engine holds a tagged fact of world a
\* left by a failed remember while the cache, which holds b's fact, has no
\* entry for a
C22_Witness ==
    /\ DOMAIN world_memories = { <<"b">> }
    /\ Len(world_memories[<<"b">>]) = 1
    /\ \E j \in 1..Len(engine) : engine[j] = TagFact(world_memories[<<"b">>][1], <<"b">>)
    /\ \E j \in 1..Len(engine) : StartsWith(engine[j], Marker(<<"a">>))
    /\ lastResp.op = "remember"
    /\ lastResp.code = 500
    /\ lastResp.world = <<"a">>
    /\ InFlight = {}

====
